---- MODULE Spec2Model ----
(***************************************************************************)
(* Feather Code: the GitHub access gateway of src/feather_code.py.         *)
(*                                                                         *)
(* The model follows one server process: the GitHubClient built at start   *)
(* (repository defaults and credentials), and handle_call_tool, which      *)
(* serves one tool call at a time.  A call is followed through its         *)
(* blocking points: each computation of the authentication headers         *)
(* (_get_headers, with the installation-token exchange of _get_app_token   *)
(* inside it) and each answer of the upstream API to a resource request.   *)
(* Every outbound HTTP call of the current tool call is kept in `calls`.   *)
(* The start of the process, where __init__ detects the repository from    *)
(* the git remote, is a specification of its own (StartSpec).              *)
(*                                                                         *)
(* Strings built by f-strings are kept as sequences of fragments, so that  *)
(* "the text contains X" is "X is one of the fragments".                   *)
(***************************************************************************)
EXTENDS Integers, Sequences, FiniteSets, TLC

VARIABLES
    github,     \* the GitHubClient instance: configuration read at start
    pc,         \* "idle" | "headers" | "upstream" | "done": where the tool call stands
    name,       \* handle_call_tool's name argument
    arguments,  \* handle_call_tool's arguments dict
    owner,      \* local `owner` of handle_call_tool
    repo,       \* local `repo` of handle_call_tool
    stage,      \* 0 until a handler is entered, then the number of its resource request
    caller,     \* who is calling _get_headers: "request" or "handler"
    req,        \* the request the dispatcher is making: method, endpoint, kwargs
    headers,    \* what the last _get_headers call returned
    calls,      \* outbound HTTP calls issued during the current tool call
    result,     \* what the tool call returned (a list of content items)
    token,      \* upstream: the installation token issued last, and whether
                \* its expiry is still ahead
    answer,     \* what requests.request did last in the current tool call:
                \* the response it returned or the transport failure it raised
    raised,     \* the exception that ended the tool call, and the frame it
                \* was raised in
    origin,     \* at start: what `git remote get-url origin` printed
    detected    \* at start: what _detect_git_repo returned

vars == <<github, pc, name, arguments, owner, repo, stage, caller, req,
          headers, calls, result, token, answer, raised, origin, detected>>

-----------------------------------------------------------------------------
(* Python values *)

None == "<None>"

\* bool(v) for an Optional[str]
Truthy(v) == v # None /\ v # ""

EmptyDict == [k \in {} |-> None]

\* d.get(k, default)
Get(d, k, default) == IF k \in DOMAIN d THEN d[k] ELSE default

\* bool(d.get(k)) for a string-valued key
Has(d, k) == k \in DOMAIN d /\ Truthy(d[k])

\* {**a, **b}: b wins on a shared key
Merge(a, b) == [k \in DOMAIN a \cup DOMAIN b |-> IF k \in DOMAIN b THEN b[k] ELSE a[k]]

Min(a, b) == IF a <= b THEN a ELSE b

\* the keys of ks that d holds with a truthy value, with their values
Pick(d, ks) == [k \in {x \in ks : Has(d, x)} |-> d[k]]

RECURSIVE Join(_, _)
\* sep.join(seq), as fragments
Join(seq, sep) ==
    IF Len(seq) = 0 THEN <<>>
    ELSE IF Len(seq) = 1 THEN <<seq[1]>>
    ELSE <<seq[1], sep>> \o Join(Tail(seq), sep)

Range(seq) == {seq[i] : i \in 1..Len(seq)}

\* the fragment x occurs in the text
Contains(text, x) == \E i \in 1..Len(text) : text[i] = x

NoExc == [type |-> "none", msg |-> <<>>, status |-> 0, body |-> [type |-> "none", items |-> <<>>]]

-----------------------------------------------------------------------------
(* Bounds and program constants *)

\* issue and pull-request numbers callers pass: 1..MaxNumber
MaxNumber == 2

\* callers pass per_page values up to MaxPerPage + PerPageExcess
PerPageExcess == 2

DefaultPerPage == 30
MaxPerPage == 100
DefaultTimeout == 30
ExchangeTimeout == 10

-----------------------------------------------------------------------------
(* The environment the process starts in: os.getenv results and the git     *)
(* remote, as GitHubClient.__init__ leaves them in the instance.            *)

Configs ==
    [ repo_owner       : {None, "octo"},
      repo_name        : {None, "hello"},
      pat              : {None, "ghp_pat"},
      app_id           : {None, "12"},
      installation_id  : {None, "34"},
      private_key_path : {None, "/key.pem"},
      api_base         : {"https://api.github.com"} ]

\* all([app_id, installation_id, private_key_path])
AppConfigured(g) ==
    Truthy(g.app_id) /\ Truthy(g.installation_id) /\ Truthy(g.private_key_path)

-----------------------------------------------------------------------------
(* The tool names *)

valid_tools ==
    << "get_repository_info", "list_issues", "create_issue", "get_pull_requests",
       "update_issue", "get_issue", "create_pull_request", "get_pull_request",
       "list_branches", "get_commits", "get_file_content", "search_code",
       "add_issue_comment", "get_repository_languages", "get_repository_topics" >>

\* the names of the types.Tool entries handle_list_tools returns
AdvertisedTools ==
    { "get_repository_info", "list_issues", "create_issue", "get_pull_requests",
      "update_issue", "get_issue", "create_pull_request", "get_pull_request",
      "list_branches", "get_commits", "get_file_content", "search_code",
      "add_issue_comment", "get_repository_languages", "get_repository_topics" }

\* names a caller may send that are no tool of this server
UnknownNames == {"delete_repository", ""}

ToolNames == Range(valid_tools) \cup UnknownNames

\* a name check that lets the empty name through
UnknownTool_SkipsEmpty(n) == n # "" /\ n \notin Range(valid_tools)

\* `name not in valid_tools`
UnknownTool(n) == n \notin Range(valid_tools)

-----------------------------------------------------------------------------
(* The argument bags callers send *)

Opt(k, Vs) == {EmptyDict} \cup {k :> v : v \in Vs}

Combine(A, B) == {a @@ b : a \in A, b \in B}

Numbers == 1..MaxNumber

PerPageValues == {-1, 0, 1, MaxPerPage - 1, MaxPerPage, 500}
                    \cup {MaxPerPage + k : k \in 1..PerPageExcess}

RepoArgs == Combine(Opt("owner", {"", "kit"}), Opt("repo", {"app"}))

ToolArgs(n) ==
    CASE n \in {"list_issues", "list_branches", "get_commits"} ->
            Opt("per_page", PerPageValues)
      [] n = "create_issue" -> Opt("title", {"", "Bug"})
      [] n \in {"update_issue", "get_issue"} -> Opt("issue_number", Numbers)
      [] n = "add_issue_comment" ->
            Combine(Opt("issue_number", Numbers), Opt("body", {"+1"}))
      [] n = "create_pull_request" ->
            Combine(Combine(Opt("title", {"Fix"}), Opt("head", {"topic"})),
                    Opt("base", {"dev"}))
      [] n = "get_pull_request" -> Opt("pr_number", Numbers)
      [] n = "get_file_content" -> Opt("path", {"README.md"})
      [] n = "search_code" -> Opt("query", {"main"})
      [] OTHER -> {EmptyDict}

Arguments(n) == Combine(RepoArgs, ToolArgs(n))

-----------------------------------------------------------------------------
(* Exceptions, as [type, msg, status, body]; an HTTPError carries the       *)
(* response it was raised for.                                              *)

NoBody == [type |-> "none", items |-> <<>>]

Exc(type, msg) == [type |-> type, msg |-> msg, status |-> 0, body |-> NoBody]

\* str(KeyError(k))
KeyError(k) == Exc("KeyError", <<"'", k, "'">>)

\* a title check that only asks for the key
TitleCheck_KeyOnly(params) ==
    IF "title" \notin DOMAIN params
    THEN Exc("ValueError", <<"Issue title is required">>) ELSE NoExc

\* create_issue: `if not params.get("title"): raise ValueError(...)`
TitleCheck(params) ==
    IF ~Has(params, "title")
    THEN Exc("ValueError", <<"Issue title is required">>) ELSE NoExc

\* The first exception a handler raises before its first outbound call
\* (a missing key it subscripts, or create_issue's title check); NoExc if none.
PreCheck(n, params) ==
    CASE n = "create_issue" -> TitleCheck(params)
      [] n \in {"update_issue", "get_issue"} ->
            IF "issue_number" \notin DOMAIN params
            THEN KeyError("issue_number") ELSE NoExc
      [] n = "add_issue_comment" ->
            IF "issue_number" \notin DOMAIN params THEN KeyError("issue_number")
            ELSE IF "body" \notin DOMAIN params THEN KeyError("body")
            ELSE NoExc
      [] n = "get_pull_request" ->
            IF "pr_number" \notin DOMAIN params THEN KeyError("pr_number") ELSE NoExc
      [] n = "get_file_content" ->
            IF "path" \notin DOMAIN params THEN KeyError("path") ELSE NoExc
      [] n = "search_code" ->
            IF "query" \notin DOMAIN params THEN KeyError("query") ELSE NoExc
      [] OTHER -> NoExc

\* create_pull_request builds its POST data after the default-branch read:
\* params["title"], params["head"]
PullRequestDataCheck(params) ==
    IF "title" \notin DOMAIN params THEN KeyError("title")
    ELSE IF "head" \notin DOMAIN params THEN KeyError("head")
    ELSE NoExc

-----------------------------------------------------------------------------
(* The requests the handlers hand to the dispatcher *)

Req(method, endpoint, kwargs) ==
    [method |-> method, endpoint |-> endpoint, kwargs |-> kwargs]

NoReq == Req("", "", EmptyDict)

RepoPath(o, r) == "/repos/" \o o \o "/" \o r

\* a page size forwarded as given
PerPage_NoClamp(params) == Get(params, "per_page", DefaultPerPage)

\* min(params.get("per_page", 30), 100)
PerPage(params) == Min(Get(params, "per_page", DefaultPerPage), MaxPerPage)

\* search_code's q
SearchQuery(o, r, params) ==
    params["query"] \o " repo:" \o o \o "/" \o r
        \o (IF Has(params, "filename") THEN " filename:" \o params["filename"] ELSE "")
        \o (IF Has(params, "extension") THEN " extension:" \o params["extension"] ELSE "")
        \o (IF Has(params, "path") THEN " path:" \o params["path"] ELSE "")

\* The handler's first request (for those that pass PreCheck).
FirstRequest(n, o, r, params) ==
    CASE n = "get_repository_info" -> Req("GET", RepoPath(o, r), EmptyDict)
      [] n = "list_issues" ->
            Req("GET", RepoPath(o, r) \o "/issues",
                "params" :> (("state" :> Get(params, "state", "open"))
                             @@ ("per_page" :> PerPage(params))
                             @@ Pick(params, {"labels"})))
      [] n = "create_issue" ->
            Req("POST", RepoPath(o, r) \o "/issues",
                "json" :> (("title" :> params["title"])
                           @@ ("body" :> Get(params, "body", ""))
                           @@ Pick(params, {"labels", "assignees"})))
      [] n = "get_pull_requests" ->
            Req("GET", RepoPath(o, r) \o "/pulls",
                "params" :> (("state" :> Get(params, "state", "open"))
                             @@ ("sort" :> Get(params, "sort", "created"))
                             @@ ("direction" :> Get(params, "direction", "desc"))))
      [] n = "update_issue" ->
            Req("PATCH", RepoPath(o, r) \o "/issues/" \o ToString(params["issue_number"]),
                "json" :> Pick(params, {"title", "body", "state", "labels", "assignees"}))
      [] n = "get_issue" ->
            Req("GET", RepoPath(o, r) \o "/issues/" \o ToString(params["issue_number"]),
                EmptyDict)
      [] n = "create_pull_request" -> Req("GET", RepoPath(o, r), EmptyDict)
      [] n = "get_pull_request" ->
            Req("GET", RepoPath(o, r) \o "/pulls/" \o ToString(params["pr_number"]),
                EmptyDict)
      [] n = "list_branches" ->
            Req("GET", RepoPath(o, r) \o "/branches",
                "params" :> (("per_page" :> PerPage(params))
                             @@ [k \in {"protected"} \cap DOMAIN params |-> params[k]]))
      [] n = "get_commits" ->
            Req("GET", RepoPath(o, r) \o "/commits",
                "params" :> (("per_page" :> PerPage(params))
                             @@ Pick(params, {"sha", "path", "author", "since", "until"})))
      [] n = "get_file_content" ->
            Req("GET", RepoPath(o, r) \o "/contents/" \o params["path"],
                "params" :> Pick(params, {"ref"}))
      [] n = "search_code" ->
            Req("GET", "/search/code", "params" :> ("q" :> SearchQuery(o, r, params)))
      [] n = "add_issue_comment" ->
            Req("POST",
                RepoPath(o, r) \o "/issues/" \o ToString(params["issue_number"]) \o "/comments",
                "json" :> ("body" :> params["body"]))
      [] n = "get_repository_languages" ->
            Req("GET", RepoPath(o, r) \o "/languages", EmptyDict)

\* create_pull_request's second request: the POST, with the base it chose
PullRequestPost(o, r, params, default_branch) ==
    Req("POST", RepoPath(o, r) \o "/pulls",
        "json" :> (("title" :> params["title"])
                   @@ ("head" :> params["head"])
                   @@ ("base" :> Get(params, "base", default_branch))
                   @@ Pick(params, {"body"})))

TopicsAccept == "application/vnd.github.mercy-preview+json"

\* get_repository_topics' request, with the headers it computed itself
TopicsRequest(o, r, own_headers) ==
    Req("GET", RepoPath(o, r) \o "/topics",
        "headers" :> Merge(own_headers, "Accept" :> TopicsAccept))

-----------------------------------------------------------------------------
(* What upstream may answer *)

Statuses == {200, 201, 304, 403, 404, 422, 500}

R(k) == <<k, k, "req">>      \* data[k]: KeyError when absent
O(k) == <<k, k, "opt">>      \* data.get(k)
L(k, v) == <<k, v, "lit">>   \* a constant the handler adds

\* the return statement of create_issue
CreateIssueFields ==
    << R("number"), R("title"), R("html_url"), R("state"), R("created_at"),
       L("message", "Issue created successfully") >>

\* The fields each handler's result is made of, in order, from the handler's
\* return statement.  A nested read (issue["user"]["login"]) is listed under
\* its top-level key.
Fields(n) ==
    CASE n = "get_repository_info" ->
            << R("name"), R("full_name"), R("description"), R("private"), R("html_url"),
               R("default_branch"), R("language"), R("stargazers_count"),
               R("watchers_count"), R("forks_count"), R("open_issues_count"),
               R("created_at"), R("updated_at"), R("pushed_at"), O("topics"),
               O("license") >>
      [] n = "list_issues" ->
            << R("number"), R("title"), R("state"), R("html_url"), R("user"),
               R("labels"), R("created_at"), R("updated_at"), R("comments"), O("body") >>
      [] n = "create_issue" -> CreateIssueFields
      [] n = "get_pull_requests" ->
            << R("number"), R("title"), R("state"), R("html_url"), R("user"),
               R("created_at"), R("updated_at"), O("draft"), O("merged"),
               O("merged_at"), R("head"), R("base"), O("body") >>
      [] n = "update_issue" ->
            << R("number"), R("title"), R("state"), R("html_url"), R("updated_at"),
               L("message", "Issue updated successfully") >>
      [] n = "get_issue" ->
            << R("number"), R("title"), R("state"), R("html_url"), R("user"),
               R("labels"), R("assignees"), R("created_at"), R("updated_at"),
               R("comments"), R("body") >>
      [] n = "create_pull_request" ->
            << R("number"), R("title"), R("html_url"), R("state"), O("draft"),
               R("head"), R("base"), R("created_at"),
               L("message", "Pull request created successfully") >>
      [] n = "get_pull_request" ->
            << R("number"), R("title"), R("state"), R("html_url"), R("user"),
               O("draft"), O("merged"), O("mergeable"), R("head"), R("base"),
               R("created_at"), R("updated_at"), O("merged_at"), R("body") >>
      [] n = "list_branches" -> << R("name"), R("commit"), O("protected") >>
      [] n = "get_commits" ->
            << R("sha"), R("commit"), R("html_url"), O("stats"), O("files") >>
      [] n = "get_file_content" ->
            << L("type", "file"), R("name"), R("path"), R("size"), R("sha"),
               R("html_url"), O("download_url"), O("content") >>
      [] n = "search_code" -> << R("total_count"), O("items") >>
      [] n = "add_issue_comment" ->
            << R("id"), R("html_url"), R("user"), R("created_at"), R("body"),
               L("message", "Comment added successfully") >>
      [] n = "get_repository_languages" -> << O("languages"), O("total_bytes") >>
      [] n = "get_repository_topics" -> << O("names") >>

\* get_file_content's entry for each item of a directory listing
DirectoryFields == << R("name"), R("type"), O("size"), R("html_url") >>

\* handlers whose endpoint answers with a JSON array that they iterate
ListTools == {"list_issues", "get_pull_requests", "list_branches", "get_commits"}

EntityKeys ==
    UNION { {f[2] : f \in {x \in Range(Fields(valid_tools[i])) : x[3] = "req"}}
            : i \in 1..Len(valid_tools) } \cup {"type"}

\* an upstream entity holding every field any handler reads
FullObject == [k \in EntityKeys |-> IF k = "default_branch" THEN "trunk" ELSE "<" \o k \o ">"]

\* an upstream error body
MessageObject == "message" :> "upstream message"

Body(type, items) == [type |-> type, items |-> items]

Bodies ==
    { Body("dict", <<FullObject>>), Body("list", <<FullObject>>),
      Body("dict", <<MessageObject>>), Body("notjson", <<>>) }

\* an issue as an upstream that sends back number, html_url, state and
\* created_at only would report it
SparseIssue ==
    [k \in {"number", "html_url", "state", "created_at"} |-> "<" \o k \o ">"]

Resp(kind, status, body) == [kind |-> kind, status |-> status, body |-> body]

\* requests.request either returns a response or raises Timeout / ConnectionError
Responses ==
    {Resp("response", s, b) : s \in Statuses, b \in Bodies}
        \cup {Resp("timeout", 0, NoBody), Resp("connection", 0, NoBody)}

\* what requests.request may do with a request of tool n
ResponsesOf(n) ==
    IF n = "create_issue"
    THEN Responses \cup {Resp("response", s, Body("dict", <<SparseIssue>>)) : s \in Statuses}
    ELSE Responses

-----------------------------------------------------------------------------
(* A handler's reading of a response *)

\* response.raise_for_status(): raises for 4xx and 5xx only
RaiseForStatus(resp) ==
    IF 400 <= resp.status /\ resp.status < 600
    THEN [type |-> "HTTPError",
          msg |-> <<ToString(resp.status),
                    IF resp.status < 500 THEN " Client Error" ELSE " Server Error">>,
          status |-> resp.status, body |-> resp.body]
    ELSE NoExc

JSONDecodeError == Exc("JSONDecodeError", <<"Expecting value: line 1 column 1 (char 0)">>)

\* the 422 branches: error_data = response.json(); error_data.get('message', ...)
Invalid(resp, what) ==
    IF resp.body.type = "notjson" THEN JSONDecodeError
    ELSE IF resp.body.type = "list"
    THEN Exc("AttributeError", <<"'list' object has no attribute 'get'">>)
    ELSE Exc("ValueError",
             <<"Invalid ", what, " data: ",
               Get(resp.body.items[1], "message", "Unknown error")>>)

\* a not-found error that does not say what was looked for
NotFound_Anonymous(what) == Exc("Exception", <<"Resource not found">>)

\* raise Exception(f"... not found")
NotFound(what) == Exc("Exception", what \o <<" not found">>)

\* The exception a handler raises on the status of the response to its
\* final request, from its if/elif chain; NoExc when it goes on to read the body.
StatusError(n, o, r, params, resp) ==
    LET expect(code) == IF resp.status # code THEN RaiseForStatus(resp) ELSE NoExc
        issue == <<"Issue #", ToString(params["issue_number"])>>
    IN
    CASE n = "get_repository_info" ->
            IF resp.status = 404 THEN NotFound(<<"Repository '", o, "/", r, "'">>)
            ELSE IF resp.status = 403
            THEN Exc("Exception", <<"API rate limit exceeded or insufficient permissions">>)
            ELSE expect(200)
      [] n = "create_issue" ->
            IF resp.status = 404 THEN NotFound(<<"Repository '", o, "/", r, "'">>)
            ELSE IF resp.status = 422 THEN Invalid(resp, "issue")
            ELSE expect(201)
      [] n \in {"update_issue", "get_issue"} ->
            IF resp.status = 404 THEN NotFound(issue) ELSE expect(200)
      [] n = "create_pull_request" ->
            IF resp.status = 422 THEN Invalid(resp, "pull request") ELSE expect(201)
      [] n = "get_pull_request" ->
            IF resp.status = 404
            THEN NotFound(<<"Pull request #", ToString(params["pr_number"])>>)
            ELSE expect(200)
      [] n = "get_file_content" ->
            IF resp.status = 404 THEN NotFound(<<"File '", params["path"], "'">>)
            ELSE expect(200)
      [] n = "add_issue_comment" ->
            IF resp.status = 404 THEN NotFound(issue) ELSE expect(201)
      [] OTHER -> expect(200)

RECURSIVE Missing(_, _)
\* the first required field the object lacks, as a KeyError; NoExc if none
Missing(fields, obj) ==
    IF Len(fields) = 0 THEN NoExc
    ELSE IF fields[1][3] = "req" /\ fields[1][2] \notin DOMAIN obj
    THEN KeyError(fields[1][2])
    ELSE Missing(Tail(fields), obj)

RECURSIVE Dump(_, _)
\* the fields of a result object, as json.dumps writes them
Dump(fields, obj) ==
    IF Len(fields) = 0 THEN <<>>
    ELSE LET f == fields[1]
             v == IF f[3] = "lit" THEN f[2] ELSE Get(obj, f[2], "null")
         IN <<f[1], ": ", v, "; ">> \o Dump(Tail(fields), obj)

\* what a handler does with the body once the status let it through:
\* [exc |-> the exception raised, text |-> json.dumps of the value returned]
ReadBody(n, resp) ==
    LET b == resp.body
        obj == b.items[1]
        fail(e) == [exc |-> e, text |-> <<>>]
        ok(fields) ==
            IF Missing(fields, obj) # NoExc THEN fail(Missing(fields, obj))
            ELSE [exc |-> NoExc, text |-> <<"{">> \o Dump(fields, obj) \o <<"}">>]
    IN
    IF b.type = "notjson" THEN fail(JSONDecodeError)
    ELSE IF n \in ListTools
    THEN IF b.type = "dict"
         THEN fail(Exc("TypeError", <<"string indices must be integers">>))
         ELSE IF n = "list_issues" /\ "pull_request" \in DOMAIN obj
              THEN [exc |-> NoExc, text |-> <<"[", "]">>]
              ELSE IF Missing(Fields(n), obj) # NoExc THEN fail(Missing(Fields(n), obj))
              ELSE [exc |-> NoExc,
                    text |-> <<"[", "{">> \o Dump(Fields(n), obj) \o <<"}", "]">>]
    ELSE IF n = "get_file_content" /\ b.type = "list"
    THEN IF Missing(DirectoryFields, obj) # NoExc THEN fail(Missing(DirectoryFields, obj))
         ELSE [exc |-> NoExc,
               text |-> <<"{", "type", ": ", "directory", "; ", "contents", ": ", "[", "{">>
                          \o Dump(DirectoryFields, obj) \o <<"}", "]", "}">>]
    ELSE IF b.type = "list"
    THEN IF n \in {"get_repository_languages", "get_repository_topics", "search_code"}
         THEN fail(Exc("AttributeError", <<"'list' object has no attribute">>))
         ELSE fail(Exc("TypeError", <<"list indices must be integers or slices, not str">>))
    ELSE IF n = "get_repository_languages" /\ "message" \in DOMAIN obj
    THEN fail(Exc("TypeError", <<"unsupported operand type(s) for +: 'int' and 'str'">>))
    ELSE ok(Fields(n))

\* the value of a handler call that got `resp` to its final request
Outcome(n, o, r, params, resp) ==
    IF StatusError(n, o, r, params, resp) # NoExc
    THEN [exc |-> StatusError(n, o, r, params, resp), text |-> <<>>]
    ELSE ReadBody(n, resp)

\* a default-branch read that gives up on an error status
DefaultBranch_Strict(resp) ==
    IF resp.status # 200 THEN [exc |-> RaiseForStatus(resp), branch |-> "main"]
    ELSE [exc |-> NoExc, branch |-> "main"]

\* create_pull_request's default_branch after the repository read:
\* [exc, branch]
DefaultBranch(resp) ==
    IF resp.status # 200 THEN [exc |-> NoExc, branch |-> "main"]
    ELSE IF resp.body.type = "notjson" THEN [exc |-> JSONDecodeError, branch |-> ""]
    ELSE IF resp.body.type = "list"
    THEN [exc |-> Exc("AttributeError", <<"'list' object has no attribute 'get'">>),
          branch |-> ""]
    ELSE [exc |-> NoExc, branch |-> Get(resp.body.items[1], "default_branch", "main")]

\* what GitHubClient.request raises when the transport fails
TransportError(resp) ==
    IF resp.kind = "timeout" THEN Exc("Exception", <<"GitHub API request timed out">>)
    ELSE IF resp.kind = "connection" THEN Exc("Exception", <<"Failed to connect to GitHub API">>)
    ELSE NoExc

-----------------------------------------------------------------------------
(* The result envelope of handle_call_tool *)

TextContent(text) == [type |-> "text", text |-> text]

NoResult == <<>>

\* the unknown-name answer
UnknownToolText(n) ==
    <<"Error: Unknown tool '", n, "'. Available tools: ">> \o Join(valid_tools, ", ")

RepositoryNotSpecified ==
    <<"Error: Repository not specified. Set GITHUB_OWNER/GITHUB_REPO environment variables or run from a git repository.">>

NoAuthentication ==
    <<"Error: No GitHub authentication configured. Set GITHUB_PAT or configure GitHub App credentials.">>

\* the two except clauses: the text returned for an exception raised inside
ErrorText(n, exc) ==
    IF exc.type = "HTTPError"
    THEN IF exc.body.type = "dict"
         THEN <<"GitHub API error: ">>
                \o (IF "message" \in DOMAIN exc.body.items[1]
                    THEN <<exc.body.items[1]["message"]>> ELSE exc.msg)
         ELSE <<"GitHub API error: ">> \o exc.msg
    ELSE <<"Error executing tool '", n, "': ">> \o exc.msg

\* the first fragments of the texts that report a failure
ErrorPrefixes ==
    { "Error: Unknown tool '", RepositoryNotSpecified[1], NoAuthentication[1],
      "GitHub API error: ", "Error executing tool '" }

-----------------------------------------------------------------------------
(* Credentials: _get_headers and _get_app_token *)

BaseHeaders ==
    ("Accept" :> "application/vnd.github.v3+json")
        @@ ("User-Agent" :> "feather-code-mcp/1.0.0")

TokenValues == {"ghs_A", "ghs_B"}

NoToken == [value |-> None, valid |-> FALSE]

\* upstream never issues the token it issued last
FreshTokens(last) == TokenValues \ {last.value}

\* How one run of _get_app_token can go: the key file cannot be read or
\* parsed, signing fails, the POST times out or cannot connect, or the POST
\* is answered; `token` is the body's token field, None when the body has none.
Exchange(kind, status, tok) == [kind |-> kind, status |-> status, token |-> tok]

NoExchange == Exchange("none", 0, None)

ExchangeStatuses == {201, 401, 404, 500}

ExchangeOutcomes(last) ==
    {Exchange(k, 0, None) : k \in {"key_unreadable", "sign_error", "timeout", "connection"}}
        \cup {Exchange("response", s, None) : s \in ExchangeStatuses}
        \cup {Exchange("response", s, t) : s \in {201, 500}, t \in FreshTokens(last)}

\* the POST of _get_app_token was sent
Posted(x) == x.kind \in {"timeout", "connection", "response"}

\* _get_app_token returned a token (status 201 and response.json()['token'])
Exchanged(x) == x.kind = "response" /\ x.status = 201 /\ x.token # None

\* the branch _get_headers takes
UsesPat(g) == Truthy(g.pat)

\* an App branch taken whether or not a PAT is set
UsesApp_IgnoresPat(g) == AppConfigured(g)

UsesApp(g) == ~Truthy(g.pat) /\ AppConfigured(g)

\* what _get_headers returns when _get_app_token went as x
GetHeadersValue(g, x) ==
    IF UsesPat(g) THEN BaseHeaders @@ ("Authorization" :> ("token " \o g.pat))
    ELSE IF UsesApp(g) /\ Exchanged(x)
    THEN BaseHeaders @@ ("Authorization" :> ("token " \o x.token))
    ELSE BaseHeaders

Call(kind, method, url, hs, kwargs) ==
    [kind |-> kind, method |-> method, url |-> url, headers |-> hs, kwargs |-> kwargs]

\* the token exchange, as it goes out
ExchangeCall(g) ==
    Call("exchange", "POST",
         g.api_base \o "/app/installations/" \o g.installation_id \o "/access_tokens",
         ("Authorization" :> "Bearer <jwt>") @@ ("Accept" :> "application/vnd.github.v3+json"),
         "timeout" :> ExchangeTimeout)

\* the outbound calls one _get_headers call makes
HeaderCalls(g, x) == IF UsesApp(g) /\ Posted(x) THEN <<ExchangeCall(g)>> ELSE <<>>

-----------------------------------------------------------------------------
(* The dispatcher: GitHubClient.request *)

\* kwargs after the default timeout is set
WithTimeout(kwargs) ==
    IF "timeout" \in DOMAIN kwargs THEN kwargs ELSE kwargs @@ ("timeout" :> DefaultTimeout)

\* requests.request(method=..., url=..., headers=self._get_headers(), **kwargs)
\* is refused by Python when kwargs holds headers too
DuplicateHeaders(rq) == "headers" \in DOMAIN rq.kwargs

DuplicateKeyword ==
    Exc("TypeError",
        <<"requests.api.request() got multiple values for keyword argument 'headers'">>)

\* the resource request, as it goes out
ResourceCall(g, rq, hs) ==
    Call("request", rq.method, g.api_base \o rq.endpoint, hs, WithTimeout(rq.kwargs))

\* a dispatcher that sends the request a second time
Send_Twice(g, rq, hs) == <<ResourceCall(g, rq, hs), ResourceCall(g, rq, hs)>>

\* the outbound calls one pass through the try block of request() makes
Send(g, rq, hs) == <<ResourceCall(g, rq, hs)>>

Requests(cs) == SelectSeq(cs, LAMBDA c : c.kind = "request")

Exchanges(cs) == SelectSeq(cs, LAMBDA c : c.kind = "exchange")

-----------------------------------------------------------------------------
(* The repository detection of GitHubClient.__init__: _detect_git_repo.     *)
(* The URL is a sequence of characters, so that the str methods the code    *)
(* uses are computed as Python computes them.                               *)

\* the string literals of _detect_git_repo and of the remote URLs, as characters
DOTGIT == <<".", "g", "i", "t">>

HTTPS == <<"h", "t", "t", "p", "s", ":", "/", "/", "g", "i", "t", "h", "u", "b", ".", "c", "o", "m", "/">>

SSH == <<"g", "i", "t", "@", "g", "i", "t", "h", "u", "b", ".", "c", "o", "m", ":">>

GITPROTO == <<"g", "i", "t", ":", "/", "/", "g", "i", "t", "h", "u", "b", ".", "c", "o", "m", "/">>

HTTP == <<"h", "t", "t", "p", ":", "/", "/", "g", "i", "t", "h", "u", "b", ".", "c", "o", "m", "/">>

GITHUB == <<"g", "i", "t", "h", "u", "b", ".", "c", "o", "m">>

SCHEME_HTTPS == <<"h", "t", "t", "p", "s", ":", "/", "/">>

SCHEME_SSH == <<"g", "i", "t", "@">>

SCHEME_GIT == <<"g", "i", "t", ":", "/", "/">>

\* the repository names tried are made of 1..MaxPieces of NamePieces
MaxPieces == 2

NamePieces == { <<"a">>, <<"-">>, <<".">>, DOTGIT, <<"h", "u", "b">>, <<"i", "o">> }

RECURSIVE NamesOf(_)
NamesOf(k) ==
    IF k = 1 THEN NamePieces
    ELSE NamesOf(k - 1) \cup {a \o b : a \in NamesOf(k - 1), b \in NamePieces}

\* the names a repository can have: none ends in .git
RepoNames ==
    {n \in NamesOf(MaxPieces) : ~(Len(n) >= 4 /\ SubSeq(n, Len(n) - 3, Len(n)) = DOTGIT)}

Owners == { <<"o">>, <<"m", "y", "-", "o", "r", "g">> }

Forms == {"https", "ssh", "git", "http"}

\* how a remote URL of each form starts
Prefix(form) ==
    CASE form = "https" -> HTTPS
      [] form = "ssh" -> SSH
      [] form = "git" -> GITPROTO
      [] form = "http" -> HTTP

Origin(form, o, r, suffix) ==
    [form |-> form, owner |-> o, repo |-> r, suffix |-> suffix,
     url |-> Prefix(form) \o o \o <<"/">> \o r \o suffix]

\* `git remote get-url origin` failed: no repository, or no remote
NoOrigin == [form |-> "none", owner |-> <<>>, repo |-> <<>>, suffix |-> <<>>, url |-> <<>>]

Origins ==
    {Origin(f, o, r, x) : f \in Forms, o \in Owners, r \in RepoNames, x \in {<<>>, DOTGIT}}
        \cup {NoOrigin}

\* _detect_git_repo has not run yet
Pending == [ran |-> FALSE, pair |-> <<>>]

\* _detect_git_repo has returned pair, the empty tuple standing for None
Returned(pair) == [ran |-> TRUE, pair |-> pair]

\* s.startswith(p)
StartsWith(s, p) == Len(s) >= Len(p) /\ SubSeq(s, 1, Len(p)) = p

\* p in s
Within(p, s) == \E i \in 0..(Len(s) - Len(p)) : SubSeq(s, i + 1, i + Len(p)) = p

RECURSIVE Remove(_, _)
\* s.replace(old, ''): every occurrence, from the left
Remove(s, old) ==
    IF Len(s) < Len(old) THEN s
    ELSE IF SubSeq(s, 1, Len(old)) = old
    THEN Remove(SubSeq(s, Len(old) + 1, Len(s)), old)
    ELSE <<s[1]>> \o Remove(Tail(s), old)

RECURSIVE Split(_, _)
\* s.split(sep) for a one-character sep
Split(s, sep) ==
    IF \A i \in 1..Len(s) : s[i] # sep THEN <<s>>
    ELSE LET i == CHOOSE k \in 1..Len(s) : s[k] = sep /\ \A j \in 1..(k - 1) : s[j] # sep
         IN <<SubSeq(s, 1, i - 1)>> \o Split(SubSeq(s, i + 1, Len(s)), sep)

\* the pair _detect_git_repo returns for the remote URL, the empty tuple
\* when it returns None
detect_git_repo(url) ==
    LET parts(prefix) == Split(Remove(Remove(url, prefix), DOTGIT), "/")
        pair(ps) == IF Len(ps) >= 2 THEN <<ps[1], ps[2]>> ELSE <<>>
    IN
    IF ~Within(GITHUB, url) THEN <<>>
    ELSE IF StartsWith(url, SCHEME_HTTPS) THEN pair(parts(HTTPS))
    ELSE IF StartsWith(url, SCHEME_SSH) THEN pair(parts(SSH))
    ELSE IF StartsWith(url, SCHEME_GIT) THEN pair(parts(GITPROTO))
    ELSE <<>>

-----------------------------------------------------------------------------
(* The state machine *)

\* no resource request has been answered in this tool call
NoAnswer == Resp("none", 0, NoBody)

\* no exception has been raised in this tool call
NoRaise == [exc |-> NoExc, in |-> "nowhere"]

Init ==
    /\ github \in Configs
    /\ pc = "idle"
    /\ name = None
    /\ arguments = EmptyDict
    /\ owner = None
    /\ repo = None
    /\ stage = 0
    /\ caller = "request"
    /\ req = NoReq
    /\ headers = EmptyDict
    /\ calls = <<>>
    /\ result = NoResult
    /\ token = NoToken
    /\ answer = NoAnswer
    /\ raised = NoRaise
    /\ origin = NoOrigin
    /\ detected = Returned(<<>>)

\* the tool call ends, returning one text item
Return(text) ==
    /\ result' = <<TextContent(text)>>
    /\ pc' = "done"
    /\ raised' = NoRaise

\* except clauses that catch HTTPError only: any other exception leaves
\* handle_call_tool and nothing is returned
Raise_HTTPErrorOnly(exc, where) ==
    /\ result' = IF exc.type = "HTTPError"
                 THEN <<TextContent(ErrorText(name', exc))>> ELSE NoResult
    /\ pc' = "done"
    /\ raised' = [exc |-> exc, in |-> where]

\* an exception raised in frame `where` reaches the except clauses of
\* handle_call_tool, which return its message as one text item
Raise(exc, where) ==
    /\ result' = <<TextContent(ErrorText(name', exc))>>
    /\ pc' = "done"
    /\ raised' = [exc |-> exc, in |-> where]

\* an owner taken from the argument only when no default is configured
OwnerOf_DefaultFirst(args, g) ==
    IF Truthy(g.repo_owner) THEN g.repo_owner ELSE Get(args, "owner", None)

\* arguments.get('owner', github.repo_owner)
OwnerOf(args, g) == Get(args, "owner", g.repo_owner)

\* arguments.get('repo', github.repo_name)
RepoOf(args, g) == Get(args, "repo", g.repo_name)

\* a repository check that forgets the name
RepositoryMissing_OwnerOnly(o, r) == ~Truthy(o)

\* `not owner or not repo`
RepositoryMissing(o, r) == ~Truthy(o) \/ ~Truthy(r)

\* a credential check satisfied by any one App field
NoCredential_AnyAppField(g) ==
    /\ ~Truthy(g.pat)
    /\ ~(Truthy(g.app_id) \/ Truthy(g.installation_id) \/ Truthy(g.private_key_path))

\* `not github.pat and not all([app_id, installation_id, private_key_path])`
NoCredential(g) == ~Truthy(g.pat) /\ ~AppConfigured(g)

\* an if/elif chain that has no branch for get_repository_topics
DispatchNames_NoTopics ==
    { "get_repository_info", "list_issues", "create_issue", "get_pull_requests",
      "update_issue", "get_issue", "create_pull_request", "get_pull_request",
      "list_branches", "get_commits", "get_file_content", "search_code",
      "add_issue_comment", "get_repository_languages" }

\* the names the if/elif chain of handle_call_tool has a branch for
DispatchNames ==
    { "get_repository_info", "list_issues", "create_issue", "get_pull_requests",
      "update_issue", "get_issue", "create_pull_request", "get_pull_request",
      "list_branches", "get_commits", "get_file_content", "search_code",
      "add_issue_comment", "get_repository_languages", "get_repository_topics" }

\* json.dumps(result) with no branch taken
UnboundResult ==
    Exc("UnboundLocalError",
        <<"cannot access local variable 'result' where it is not associated with a value">>)

\* handle_call_tool is entered: the name, repository and credential checks,
\* then the handler up to its first header computation.
CallTool(n, args) ==
    /\ pc = "idle"
    /\ UNCHANGED <<origin, detected>>
    /\ name' = n
    /\ arguments' = args
    /\ UNCHANGED <<github, token, calls, headers, answer>>
    /\ IF UnknownTool(n)
       THEN /\ Return(UnknownToolText(n))
            /\ UNCHANGED <<owner, repo, stage, caller, req>>
       ELSE /\ owner' = OwnerOf(args, github)
            /\ repo' = RepoOf(args, github)
            /\ IF RepositoryMissing(owner', repo')
               THEN /\ Return(RepositoryNotSpecified)
                    /\ UNCHANGED <<stage, caller, req>>
               ELSE IF NoCredential(github)
               THEN /\ Return(NoAuthentication)
                    /\ UNCHANGED <<stage, caller, req>>
               ELSE IF n \notin DispatchNames
               THEN /\ Raise(UnboundResult, "handle_call_tool")
                    /\ UNCHANGED <<stage, caller, req>>
               ELSE IF n = "get_repository_topics"
               THEN /\ pc' = "headers" /\ caller' = "handler"
                    /\ stage' = 1 /\ UNCHANGED <<req, result, raised>>
               ELSE IF PreCheck(n, args) # NoExc
               THEN /\ Raise(PreCheck(n, args), "handler")
                    /\ stage' = 1 /\ UNCHANGED <<caller, req>>
               ELSE /\ pc' = "headers" /\ caller' = "request"
                    /\ stage' = 1 /\ UNCHANGED <<result, raised>>
                    /\ req' = FirstRequest(n, owner', repo', args)

\* One call of _get_headers, the token exchange included, and what its
\* caller does with the headers: get_repository_topics builds its request
\* and enters the dispatcher, the dispatcher sends the request or fails.
GetHeaders(x) ==
    /\ pc = "headers"
    /\ UNCHANGED <<origin, detected>>
    /\ headers' = GetHeadersValue(github, x)
    /\ token' = IF UsesApp(github) /\ Exchanged(x)
                THEN [value |-> x.token, valid |-> TRUE] ELSE token
    /\ UNCHANGED <<github, name, arguments, owner, repo, stage, answer>>
    /\ IF caller = "handler"
       THEN /\ req' = TopicsRequest(owner, repo, headers')
            /\ caller' = "request"
            /\ pc' = "headers"
            /\ calls' = calls \o HeaderCalls(github, x)
            /\ UNCHANGED <<result, raised>>
       ELSE IF DuplicateHeaders(req)
       THEN /\ Raise(DuplicateKeyword, "request")
            /\ calls' = calls \o HeaderCalls(github, x)
            /\ UNCHANGED <<req, caller>>
       ELSE /\ calls' = calls \o HeaderCalls(github, x) \o Send(github, req, headers')
            /\ pc' = "upstream"
            /\ UNCHANGED <<req, caller, result, raised>>

\* upstream answers the resource request (or the transport fails) and the
\* handler runs on to its next request or to its end
Respond(resp) ==
    /\ pc = "upstream"
    /\ UNCHANGED <<origin, detected>>
    /\ UNCHANGED <<github, name, arguments, owner, repo, headers, calls, token, caller>>
    /\ answer' = resp
    /\ IF TransportError(resp) # NoExc
       THEN /\ Raise(TransportError(resp), "request")
            /\ UNCHANGED <<req, stage>>
       ELSE IF name = "create_pull_request" /\ stage = 1
       THEN LET db == DefaultBranch(resp) IN
            IF db.exc # NoExc
            THEN Raise(db.exc, "handler") /\ UNCHANGED <<req, stage>>
            ELSE IF PullRequestDataCheck(arguments) # NoExc
            THEN Raise(PullRequestDataCheck(arguments), "handler") /\ UNCHANGED <<req, stage>>
            ELSE /\ req' = PullRequestPost(owner, repo, arguments, db.branch)
                 /\ stage' = 2
                 /\ pc' = "headers"
                 /\ UNCHANGED <<result, raised>>
       ELSE LET out == Outcome(name, owner, repo, arguments, resp) IN
            /\ IF out.exc # NoExc THEN Raise(out.exc, "handler") ELSE Return(out.text)
            /\ UNCHANGED <<req, stage>>

\* time passes the expiry of the installation token issued last
Expire ==
    /\ token.value # None
    /\ UNCHANGED <<origin, detected>>
    /\ token.valid
    /\ token' = [token EXCEPT !.valid = FALSE]
    /\ UNCHANGED <<github, pc, name, arguments, owner, repo, stage, caller, req,
                   headers, calls, result, answer, raised>>

\* the result is on its way to the caller and the server waits for the next
\* tool call; nothing of the finished call is kept but the client instance
NextCall ==
    /\ pc = "done"
    /\ UNCHANGED <<origin, detected>>
    /\ pc' = "idle"
    /\ name' = None
    /\ arguments' = EmptyDict
    /\ owner' = None
    /\ repo' = None
    /\ stage' = 0
    /\ caller' = "request"
    /\ req' = NoReq
    /\ headers' = EmptyDict
    /\ calls' = <<>>
    /\ result' = NoResult
    /\ answer' = NoAnswer
    /\ raised' = NoRaise
    /\ UNCHANGED <<github, token>>

\* how _get_app_token may go in this process: it runs only in App mode
Outcomes == IF UsesApp(github) THEN ExchangeOutcomes(token) ELSE {NoExchange}

Next ==
    \/ \E n \in ToolNames : \E args \in Arguments(n) : CallTool(n, args)
    \/ \E x \in Outcomes : GetHeaders(x)
    \/ \E resp \in ResponsesOf(name) : Respond(resp)
    \/ NextCall
    \/ Expire

Spec == Init /\ [][Next]_vars

-----------------------------------------------------------------------------
(* The start of the process, up to the repository detection *)

\* the process starts in a working directory with some remote, or none
StartInit ==
    /\ origin \in Origins
    /\ detected = Pending
    /\ github = [repo_owner |-> None, repo_name |-> None, pat |-> None, app_id |-> None,
                 installation_id |-> None, private_key_path |-> None,
                 api_base |-> "https://api.github.com"]
    /\ pc = "start"
    /\ name = None
    /\ arguments = EmptyDict
    /\ owner = None
    /\ repo = None
    /\ stage = 0
    /\ caller = "request"
    /\ req = NoReq
    /\ headers = EmptyDict
    /\ calls = <<>>
    /\ result = NoResult
    /\ token = NoToken
    /\ answer = NoAnswer
    /\ raised = NoRaise

\* __init__ calls _detect_git_repo; a failed git command gives None
DetectGitRepo ==
    /\ pc = "start"
    /\ detected = Pending
    /\ detected' = Returned(IF origin = NoOrigin THEN <<>> ELSE detect_git_repo(origin.url))
    /\ UNCHANGED <<github, pc, name, arguments, owner, repo, stage, caller, req,
                   headers, calls, result, token, answer, raised, origin>>

StartNext == DetectGitRepo

StartSpec == StartInit /\ [][StartNext]_vars

-----------------------------------------------------------------------------
(* The input schemas advertised by handle_list_tools *)

\* the "required" list of each tool's inputSchema
Required(n) ==
    CASE n = "create_issue" -> {"title"}
      [] n = "update_issue" -> {"issue_number"}
      [] n = "get_issue" -> {"issue_number"}
      [] n = "create_pull_request" -> {"title", "head"}
      [] n = "get_pull_request" -> {"pr_number"}
      [] n = "get_file_content" -> {"path"}
      [] n = "search_code" -> {"query"}
      [] n = "add_issue_comment" -> {"issue_number", "body"}
      [] OTHER -> {}

-----------------------------------------------------------------------------
(* Vocabulary of the properties *)

\* the tool call has returned
Done == pc = "done"

\* the returned list is one text item reporting a failure
IsError(res) ==
    /\ Len(res) = 1
    /\ Len(res[1].text) > 0
    /\ res[1].text[1] \in ErrorPrefixes

\* this step is a call of _get_headers
HeaderStep == pc = "headers" /\ (pc' # "headers" \/ caller' # caller)

NewExchanges == Len(Exchanges(calls')) - Len(Exchanges(calls))

NewRequests == Len(Requests(calls')) - Len(Requests(calls))

-----------------------------------------------------------------------------
(* Properties *)

\* C1: with only an App credential (no PAT), a header computation made while
\* the installation token obtained earlier is still valid presents that same
\* token and sends no new exchange; one made after the token has expired
\* sends one exchange (none when the key cannot even be read or signed with)
\* and does not present the expired token.
C1_TokenReuse ==
    [][ (UsesApp(github) /\ HeaderStep /\ token.value # None) =>
            IF token.valid
            THEN /\ NewExchanges = 0
                 /\ "Authorization" \in DOMAIN headers'
                 /\ headers'["Authorization"] = "token " \o token.value
            ELSE /\ NewExchanges <= 1
                 /\ ("Authorization" \in DOMAIN headers'
                        => headers'["Authorization"] # "token " \o token.value)
      ]_vars

\* C2: a call whose name is no registered tool returns an error that lists
\* every registered tool name, and makes no outbound call, whatever the
\* repository defaults and credentials are.
C2_UnknownName ==
    (Done /\ name \notin DispatchNames) =>
        /\ IsError(result)
        /\ \A t \in DispatchNames : Contains(result[1].text, t)
        /\ calls = <<>>

C2_Witness ==
    /\ Done
    /\ name = "delete_repository"
    /\ UsesPat(github)
    /\ Truthy(github.repo_owner) /\ Truthy(github.repo_name)

\* C3: for a registered tool, when the owner or the repository name is empty
\* or absent after the arguments are merged over the defaults, the call
\* returns the repository-not-specified error without any outbound call; no
\* handler is ever running with an empty owner or name.
C3_RepositoryRequired ==
    LET o == IF "owner" \in DOMAIN arguments THEN arguments["owner"] ELSE github.repo_owner
        r == IF "repo" \in DOMAIN arguments THEN arguments["repo"] ELSE github.repo_name
    IN
    /\ (Done /\ name \in DispatchNames /\ (o \in {None, ""} \/ r \in {None, ""})) =>
            /\ result = <<TextContent(RepositoryNotSpecified)>>
            /\ calls = <<>>
            /\ stage = 0
    /\ (stage > 0 \/ calls # <<>>) =>
            /\ owner \notin {None, ""} /\ repo \notin {None, ""}
            /\ owner = o /\ repo = r

C3_Witness ==
    /\ Done
    /\ name = "list_issues"
    /\ Truthy(github.repo_owner) /\ Truthy(github.repo_name)
    /\ "owner" \in DOMAIN arguments /\ arguments["owner"] = ""
    /\ UsesPat(github)

\* C4: for a registered tool with a resolved repository, when neither a PAT
\* nor the complete App triple is configured the call returns the
\* no-authentication error without any outbound call; a process without a
\* usable credential never issues an outbound call.
C4_CredentialRequired ==
    LET usable == \/ github.pat \notin {None, ""}
                  \/ /\ github.app_id \notin {None, ""}
                     /\ github.installation_id \notin {None, ""}
                     /\ github.private_key_path \notin {None, ""}
    IN
    ~usable =>
        /\ calls = <<>>
        /\ pc \in {"idle", "done"}
        /\ (Done /\ name \in DispatchNames /\ Truthy(owner) /\ Truthy(repo)) =>
                /\ result = <<TextContent(NoAuthentication)>>
                /\ stage = 0

C4_Witness ==
    /\ Done
    /\ name = "get_issue"
    /\ Truthy(owner) /\ Truthy(repo)
    /\ ~Truthy(github.pat)
    /\ Truthy(github.app_id) /\ Truthy(github.private_key_path)
    /\ ~Truthy(github.installation_id)

\* C5: whenever a PAT is configured, every header computation returns
\* Authorization: token <PAT> and no token exchange is ever sent, whichever
\* of the App fields are set.
C5_PatPrecedence ==
    github.pat \notin {None, ""} =>
        /\ \A i \in 1..Len(calls) :
              /\ calls[i].kind = "request"
              /\ calls[i].headers["Authorization"] = "token " \o github.pat
        /\ DOMAIN headers # {} =>
              /\ "Authorization" \in DOMAIN headers
              /\ headers["Authorization"] = "token " \o github.pat
        /\ token = NoToken

C5_Witness ==
    /\ pc = "upstream"
    /\ Truthy(github.pat)
    /\ AppConfigured(github)
    /\ Len(calls) = 1

\* C6: for every tool whose schema declares required fields, a call that
\* omits one returns an error and no resource request has been issued by the
\* time the error is returned.
C6_ValidationFirst ==
    (Done /\ name \in DispatchNames /\ ~(Required(name) \subseteq DOMAIN arguments)) =>
        /\ IsError(result)
        /\ Requests(calls) = <<>>

\* C7: create_issue without a title (absent or empty), repository and
\* credential being valid, returns an error and sends neither a resource
\* request nor a token exchange.
C7_CreateIssueTitle ==
    (Done /\ name = "create_issue" /\ stage > 0
          /\ ("title" \notin DOMAIN arguments \/ arguments["title"] = "")) =>
        /\ IsError(result)
        /\ Contains(result[1].text, "Issue title is required")
        /\ calls = <<>>

C7_Witness ==
    /\ Done
    /\ name = "create_issue"
    /\ stage > 0
    /\ "title" \in DOMAIN arguments /\ arguments["title"] = ""
    /\ UsesApp(github)

\* C8: for list_issues, list_branches and get_commits the per_page sent
\* upstream is never above 100, equals the caller's value when that is
\* between 1 and 100, and is 30 when the caller gives none.
C8_PerPageClamp ==
    name \in {"list_issues", "list_branches", "get_commits"} =>
        \A i \in 1..Len(calls) :
            calls[i].kind = "request" =>
                LET sent == calls[i].kwargs["params"]["per_page"] IN
                /\ sent <= 100
                /\ IF "per_page" \in DOMAIN arguments
                   THEN (1 <= arguments["per_page"] /\ arguments["per_page"] <= 100)
                            => sent = arguments["per_page"]
                   ELSE sent = 30

C8_Witness ==
    /\ pc = "upstream"
    /\ name = "get_commits"
    /\ "per_page" \in DOMAIN arguments /\ arguments["per_page"] = 500
    /\ Len(Requests(calls)) = 1
    /\ Requests(calls)[1].kwargs["params"]["per_page"] = 100

\* C9: get_repository_topics, called with a valid repository and credential,
\* issues exactly one GET to /repos/{owner}/{repo}/topics whose headers are
\* the credential headers merged with the handler's own, the topics-preview
\* Accept winning and the Authorization header kept.
C9_TopicsRequest ==
    (Done /\ name = "get_repository_topics" /\ stage > 0) =>
        /\ Len(Requests(calls)) = 1
        /\ LET c == Requests(calls)[1] IN
           /\ c.method = "GET"
           /\ c.url = github.api_base \o "/repos/" \o owner \o "/" \o repo \o "/topics"
           /\ c.headers["Accept"] = TopicsAccept
           /\ (UsesPat(github) =>
                 /\ "Authorization" \in DOMAIN c.headers
                 /\ c.headers["Authorization"] = "token " \o github.pat)

\* C10: in App mode, when the token exchange of a dispatcher call fails, the
\* resource request of that call still goes out, once and without an
\* Authorization header, and the exchange is not tried again in that call.
C10_ExchangeFailure ==
    [][ (UsesApp(github) /\ HeaderStep /\ caller = "request"
            /\ "Authorization" \notin DOMAIN headers') =>
            /\ NewExchanges <= 1
            /\ NewRequests = 1
            /\ calls'[Len(calls')].kind = "request"
            /\ "Authorization" \notin DOMAIN calls'[Len(calls')].headers
      ]_vars

\* the transport failed under the resource request sent last
TransportFailed == answer.kind \in {"timeout", "connection"}

\* upstream answered the resource request sent last
Answered == answer.kind = "response"

\* C11: the dispatcher raises only when the connection fails or the request
\* times out, so that every upstream response, whatever its status, reaches
\* the handler; and a request goes out with a 30-second timeout exactly when
\* the caller passed none.
C11_DispatcherContract ==
    /\ raised.in = "request" => TransportFailed
    /\ Answered => raised.in # "request"
    /\ pc = "upstream" =>
          LET c == calls[Len(calls)] IN
          /\ c.kind = "request"
          /\ c.kwargs["timeout"] = IF "timeout" \in DOMAIN req.kwargs
                                   THEN req.kwargs["timeout"] ELSE 30

\* the returned list is one text item holding the JSON of a handler's result
IsSuccess(res) ==
    /\ Len(res) = 1
    /\ Len(res[1].text) > 0
    /\ res[1].text[1] \in {"{", "["}

\* the upstream side effect of a creating, updating or commenting tool call
\* has been applied: its POST or PATCH was answered with a 2xx status
Applied ==
    /\ name \in {"create_issue", "update_issue", "create_pull_request", "add_issue_comment"}
    /\ Answered
    /\ req.method \in {"POST", "PATCH"}
    /\ 200 <= answer.status /\ answer.status < 300

\* C12: every tool call that has ended has returned exactly one text item,
\* an error message or a success payload and never both; an exception raised
\* anywhere on the way has been turned into the error message; and a call
\* that has not ended can always take its next step, of which it takes at
\* most two header computations and one answer per resource request.
C12_OneTextItem ==
    /\ Done =>
          /\ Len(result) = 1
          /\ result[1].type = "text"
          /\ IsError(result) # IsSuccess(result)
          /\ raised.exc # NoExc => IsError(result)
    /\ ~Done => result = NoResult /\ raised = NoRaise
    /\ pc = "headers" => ENABLED (\E x \in Outcomes : GetHeaders(x))
    /\ pc = "upstream" => ENABLED (\E resp \in ResponsesOf(name) : Respond(resp))
    /\ stage <= 2
    /\ Len(calls) <= 4

\* a created issue whose confirmation could not be read still ends in one
\* error message
C12_Witness ==
    /\ Done
    /\ Applied
    /\ name = "create_issue"
    /\ answer.status = 201
    /\ answer.body.type = "notjson"
    /\ IsError(result)
    /\ raised.in = "handler"

\* this step is the end of one resource request: upstream answered it or
\* the transport failed under it
AnswerStep == pc = "upstream" /\ answer' # NoAnswer

\* C13: a tool call sends at most one resource request, create_pull_request
\* at most two (the default-branch read, then the create), and never the
\* same request twice; the step in which the transport fails under a
\* resource request ends the call with the transport error and sends
\* nothing more.
C13_NoRetry ==
    /\ [](Len(Requests(calls)) <= IF name = "create_pull_request" THEN 2 ELSE 1)
    /\ [](\A i, j \in 1..Len(Requests(calls)) :
              i # j => Requests(calls)[i] # Requests(calls)[j])
    /\ [](TransportFailed => Done /\ IsError(result) /\ raised.in = "request")
    /\ [][ (AnswerStep /\ answer'.kind \in {"timeout", "connection"}) =>
              /\ pc' = "done"
              /\ calls' = calls
              /\ IsError(result')
              /\ Contains(result'[1].text,
                          IF answer'.kind = "timeout"
                          THEN "GitHub API request timed out"
                          ELSE "Failed to connect to GitHub API")
       ]_vars

\* the create of create_pull_request timed out after its default-branch
\* read had been answered
C13_Witness ==
    /\ Done
    /\ name = "create_pull_request"
    /\ Len(Requests(calls)) = 2
    /\ answer.kind = "timeout"
    /\ IsError(result)

\* C14: when the response a handler ends on has a status outside 200..299,
\* 3xx included, the tool call returns an error and no success payload.
C14_NonSuccessStatus ==
    (Done /\ Answered /\ ~(200 <= answer.status /\ answer.status < 300)) =>
        /\ IsError(result)
        /\ ~IsSuccess(result)

\* C15: when a tool call ends on an HTTP error status its handler has no
\* branch for (raise_for_status raised and nothing else caught it) and the
\* response body is a JSON object with a message, the error text holds both
\* the status and that message.
C15_StatusAndMessage ==
    (Done /\ raised.exc.type = "HTTPError" /\ Answered
          /\ answer.body.type = "dict" /\ "message" \in DOMAIN answer.body.items[1]) =>
        /\ IsError(result)
        /\ Contains(result[1].text, answer.body.items[1]["message"])
        /\ Contains(result[1].text, ToString(answer.status))

\* text holds the fragments of part one after the other
ContainsText(text, part) ==
    \E i \in 0..(Len(text) - Len(part)) : SubSeq(text, i + 1, i + Len(part)) = part

\* the tools that work on one issue, addressed by issue_number
IssueTools == {"get_issue", "update_issue", "add_issue_comment"}

\* C16: when upstream answers 404 to the request get_issue, update_issue or
\* add_issue_comment makes for issue number n, the call returns an error
\* whose text contains "Issue #n not found".
C16_IssueNotFound ==
    (Done /\ name \in IssueTools /\ Answered /\ answer.status = 404) =>
        /\ IsError(result)
        /\ ContainsText(result[1].text,
                        <<"Issue #", ToString(arguments["issue_number"]), " not found">>)

C16_Witness ==
    /\ Done
    /\ name = "add_issue_comment"
    /\ Answered /\ answer.status = 404
    /\ arguments["issue_number"] = MaxNumber
    /\ answer.body.type = "dict" /\ "message" \in DOMAIN answer.body.items[1]

\* the <<key, value>> entries of a JSON object written by json.dumps
PayloadEntries(text) ==
    { <<text[i], text[i + 2]>> : i \in {j \in 2..(Len(text) - 1) : (j - 2) % 4 = 0} }

\* C17: when upstream answers 201 to the POST of create_issue with a body
\* holding exactly number, html_url, state and created_at, the call returns
\* a success payload made of those four fields with the upstream values and
\* one confirmation message, nothing omitted and nothing added.
C17_CreateIssuePayload ==
    (Done /\ name = "create_issue" /\ Answered /\ answer.status = 201
          /\ answer.body.type = "dict"
          /\ DOMAIN answer.body.items[1] = {"number", "html_url", "state", "created_at"}) =>
        /\ IsSuccess(result)
        /\ LET obj == answer.body.items[1]
               entries == PayloadEntries(result[1].text)
           IN /\ {e \in entries : e[1] # "message"} = {<<k, obj[k]>> : k \in DOMAIN obj}
              /\ Cardinality({e \in entries : e[1] = "message"}) = 1

\* the owner and name a tool call addresses: the argument where the caller
\* gave one, the default of the process otherwise
Addressed ==
    [owner |-> IF "owner" \in DOMAIN arguments THEN arguments["owner"] ELSE github.repo_owner,
     repo |-> IF "repo" \in DOMAIN arguments THEN arguments["repo"] ELSE github.repo_name]

\* the endpoints below /repos/{o}/{r} that the tools address
PathsUnder(o, r) ==
    LET p == "/repos/" \o o \o "/" \o r IN
    {p \o t : t \in {"", "/issues", "/pulls", "/branches", "/commits", "/languages", "/topics"}}
        \cup {p \o "/issues/" \o ToString(k) \o c : k \in Numbers, c \in {"", "/comments"}}
        \cup {p \o "/pulls/" \o ToString(k) : k \in Numbers}
        \cup {p \o "/contents/" \o Get(arguments, "path", "")}

\* the search queries scoped to repository o/r
QueriesUnder(o, r) ==
    {Get(arguments, "query", "") \o " repo:" \o o \o "/" \o r \o f \o e \o p :
        f \in {"", " filename:" \o Get(arguments, "filename", "")},
        e \in {"", " extension:" \o Get(arguments, "extension", "")},
        p \in {"", " path:" \o Get(arguments, "path", "")}}

\* endpoint ep, with keyword arguments kw, lies in repository o/r
InRepository(ep, kw, o, r) ==
    IF ep = "/search/code"
    THEN kw["params"]["q"] \in QueriesUnder(o, r)
    ELSE ep \in PathsUnder(o, r)

\* C19: every endpoint a tool call asks the dispatcher for, and every
\* resource request it sends, is in the repository named by the call's own
\* owner and repo arguments, the process defaults standing in for the
\* argument not given; and no step changes the defaults, so a later call
\* that gives neither addresses the repository resolved at startup.
C19_OverrideIsLocal ==
    /\ [](req # NoReq =>
            InRepository(req.endpoint, req.kwargs, Addressed.owner, Addressed.repo))
    /\ [](\A i \in 1..Len(calls) :
            calls[i].kind = "request" =>
                \E ep \in PathsUnder(Addressed.owner, Addressed.repo) \cup {"/search/code"} :
                    /\ calls[i].url = github.api_base \o ep
                    /\ InRepository(ep, calls[i].kwargs, Addressed.owner, Addressed.repo))
    /\ [][ /\ github'.repo_owner = github.repo_owner
           /\ github'.repo_name = github.repo_name ]_vars

\* both requests of a create_pull_request that overrides the owner of a
\* configured default and leaves the name to the default
C19_Witness ==
    /\ name = "create_pull_request"
    /\ Len(Requests(calls)) = 2
    /\ github.repo_owner = "octo" /\ github.repo_name = "hello"
    /\ "owner" \in DOMAIN arguments /\ arguments["owner"] = "kit"
    /\ "repo" \notin DOMAIN arguments
    /\ Requests(calls)[2].url = github.api_base \o "/repos/kit/hello/pulls"

\* C20: the remote URLs https://github.com/<owner>/<repo>.git,
\* git@github.com:<owner>/<repo>.git and git://github.com/<owner>/<repo>.git
\* are each detected as the pair (<owner>, <repo>): the same pair for the
\* three forms, with nothing but the trailing .git taken away.
C20_DetectSamePair ==
    (detected.ran /\ origin.form \in {"https", "ssh", "git"} /\ origin.suffix = DOTGIT) =>
        detected.pair = <<origin.owner, origin.repo>>

\* the step in which a create_pull_request call receives the answer to its
\* default-branch read
BranchReadAnswered ==
    /\ name = "create_pull_request"
    /\ pc = "upstream" /\ stage = 1
    /\ answer'.kind = "response"

\* C21: create_pull_request first sends the GET of /repos/{owner}/{repo} and
\* then the POST to /repos/{owner}/{repo}/pulls; the POST goes out only after
\* the GET has been answered; with title and head given, a GET answered with
\* a status other than 200 does not end the call but leads to the POST, whose
\* base is "main" unless the caller gave one; and a base the caller gave is
\* the base sent.
C21_PullRequestOrder ==
    /\ [](name = "create_pull_request" =>
            LET rs == Requests(calls) IN
            /\ Len(rs) <= 2
            /\ Len(rs) >= 1 =>
                  /\ rs[1].method = "GET"
                  /\ rs[1].url = github.api_base \o "/repos/" \o owner \o "/" \o repo
            /\ Len(rs) = 2 =>
                  /\ stage = 2
                  /\ rs[2].method = "POST"
                  /\ rs[2].url = github.api_base \o "/repos/" \o owner \o "/" \o repo \o "/pulls"
                  /\ "base" \in DOMAIN arguments =>
                        rs[2].kwargs["json"]["base"] = arguments["base"])
    /\ [][ (name = "create_pull_request" /\ NewRequests > 0
                /\ calls'[Len(calls')].method = "POST") =>
              /\ Len(Requests(calls)) = 1
              /\ answer.kind = "response"
       ]_vars
    /\ [][ (BranchReadAnswered /\ answer'.status # 200
                /\ {"title", "head"} \subseteq DOMAIN arguments) =>
              /\ pc' = "headers"
              /\ stage' = 2
              /\ req'.method = "POST"
              /\ req'.kwargs["json"]["base"] =
                    IF "base" \in DOMAIN arguments THEN arguments["base"] ELSE "main"
       ]_vars

\* the POST has gone out with base "main" after the repository read was
\* answered 404
C21_Witness ==
    /\ name = "create_pull_request"
    /\ pc = "upstream" /\ stage = 2
    /\ answer.kind = "response" /\ answer.status = 404
    /\ "base" \notin DOMAIN arguments
    /\ Len(Requests(calls)) = 2
    /\ Requests(calls)[2].kwargs["json"]["base"] = "main"

\* the tool call got past the name, repository and credential checks
PassedChecks ==
    /\ name \in Range(valid_tools)
    /\ owner \notin {None, ""} /\ repo \notin {None, ""}
    /\ \/ github.pat \notin {None, ""}
       \/ /\ github.app_id \notin {None, ""}
          /\ github.installation_id \notin {None, ""}
          /\ github.private_key_path \notin {None, ""}

\* C22: the advertised names, the names the valid-name check accepts and the
\* names with a dispatch branch are the same fifteen names; so a call of an
\* advertised tool that passes the name, repository and credential checks
\* has entered the handler of its name, only such calls enter a handler, and
\* no call ends on an unbound result.
C22_NameSetsAgree ==
    /\ AdvertisedTools = Range(valid_tools)
    /\ Range(valid_tools) = DispatchNames
    /\ Cardinality(AdvertisedTools) = 15
    /\ Len(valid_tools) = 15
    /\ (name \in AdvertisedTools /\ PassedChecks /\ pc # "idle") =>
            /\ stage >= 1
            /\ name \in DispatchNames
    /\ stage >= 1 => name \in AdvertisedTools /\ PassedChecks
    /\ Done =>
            /\ raised.exc.type # "UnboundLocalError"
            /\ Len(result) = 1

\* the tool listed last has run and returned its payload
C22_Witness ==
    /\ Done
    /\ name = "get_repository_languages"
    /\ PassedChecks
    /\ stage = 1
    /\ IsSuccess(result)

====
